---------------------------- MODULE Spec2Model ----------------------------
(***************************************************************************)
(* A model of the bus-synchronisation layer of pioreactorui's web client:  *)
(*   - MediaCard (client/src/components/MediaCard.jsx): the streaming      *)
(*     aggregator of media / alt-media throughput and the snapshot of      *)
(*     recent rates;                                                       *)
(*   - ButtonChangeDosingDialog (unnamed/part_000): the dispatcher of      *)
(*     "change dosing automation" commands;                                *)
(*   - ErrorSnackbar (client/src/components/ErrorSnackbar.jsx): the log    *)
(*     subscription, the identity map and the notification it shows;       *)
(*   - DownloadDataFormContainer (client/src/DownloadData.jsx): the        *)
(*     download form.                                                      *)
(*                                                                         *)
(* Conventions.                                                            *)
(*   - A topic string "a/b/c" is held as the sequence of its segments      *)
(*     <<"a","b","c">>: split("/") and join("/") are the two directions of *)
(*     that representation (no segment of the model contains a "/").       *)
(*   - A JavaScript number is a record [nan, v]: v counts halves, so 2.5   *)
(*     is Num(5), 1.0 is Num(2), 0.5 is Num(1).  The payloads of the model *)
(*     are dyadic, so float64 addition on them is exact.  NaN absorbs.     *)
(*   - A JavaScript object used as a map is a function whose DOMAIN is the *)
(*     set of its keys; {} is the empty function << >>.                    *)
(*   - JavaScript is single-threaded: every handler is one atomic action.  *)
(***************************************************************************)
EXTENDS Integers, Sequences, FiniteSets, TLC

VARIABLES
    experiment,     \* MediaCard: this.props.experiment
    state,          \* MediaCard: this.state
    mcLife,         \* MediaCard: "constructed" | "mounted" | "unmounted"
    mcClient,       \* MediaCard: this.client, [conn, subscriptions]
    delivered,      \* history: the messages handed to MediaCard.onMessageArrived
    inflight,       \* MediaCard: the fetches of getRecentRates not yet settled
    issued,         \* history: the number of fetches getRecentRates has issued
    fetchLog,       \* history: the settled fetches, in order of settlement
    config,         \* dosing dialog: props.config, "empty" until it is loaded
    dlgLife,        \* dosing dialog: "rendered" | "mounted"
    open,           \* dosing dialog: useState open
    algoSettings,   \* dosing dialog: useState algoSettings
    client,         \* dosing dialog: useState client, 0 for null, else an index of sessions
    automations,    \* dosing dialog: useState automations, the set of its keys
    openSnackbar,   \* dosing dialog: useState openSnackbar
    sessions,       \* dosing dialog: the state of every Client the effect has created
    published,      \* the bus: the commands the broker has accepted, in order
    consoleLog,     \* dosing dialog: what onSubmit's catch has passed to console.log
    sbConfig,       \* ErrorSnackbar: props.config, "empty" until it is loaded
    sbLife,         \* ErrorSnackbar: "rendered" | "mounted"
    relabelMap,     \* ErrorSnackbar: useState relabelMap
    labelFetch,     \* ErrorSnackbar: "idle" | "pending" | "settled", the fetch of the labels
    sbClients,      \* ErrorSnackbar: every Client the effect has created,
                    \*   [conn, subscriptions, relabelMap (as its handler captured it)]
    sbView,         \* ErrorSnackbar: useState open, renamedUnit, unit, msg, level, task
    isRunning,      \* download form: useState isRunning
    isError,        \* download form: useState isError
    errorMsg,       \* download form: useState errorMsg
    formState,      \* download form: useState state, [experimentSelection, datasetCheckbox]
    submits         \* history: what became of each click on Download, in order

mediaVars == <<experiment, state, mcLife, mcClient, delivered, inflight, issued, fetchLog>>

dosingVars == <<config, dlgLife, open, algoSettings, client, automations, openSnackbar,
                sessions, published, consoleLog>>

snackVars == <<sbConfig, sbLife, relabelMap, labelFetch, sbClients, sbView>>

downloadVars == <<isRunning, isError, errorMsg, formState, submits>>

vars == <<mediaVars, dosingVars, snackVars, downloadVars>>

-----------------------------------------------------------------------------
(* Bounds of the model and the inputs drawn by its environment.            *)

MaxMsgs == 3

MaxFetches == 3

MaxClients == 2

MaxSubmits == 2

MaxDownloads == 2

Units == {"u1", "u2"}

Experiments == {"expA", "expB"}

Metrics == {"media_throughput", "alt_media_throughput"}

PayloadStrings == {"2.5", "1.0", "0.5", "abc"}

-----------------------------------------------------------------------------
(* JavaScript numbers.                                                     *)

Num(h) == [nan |-> FALSE, v |-> h]

NaN == [nan |-> TRUE, v |-> 0]

\* a + b on numbers
Plus(a, b) == IF a.nan \/ b.nan THEN NaN ELSE Num(a.v + b.v)

\* parseFloat(message.payloadString)
parseFloat(s) ==
    CASE s = "2.5" -> Num(5)
      [] s = "1.0" -> Num(2)
      [] s = "0.5" -> Num(1)
      [] OTHER     -> NaN

-----------------------------------------------------------------------------
(* The bus: topic filters as the broker applies them.                      *)

\* "+" matches exactly one segment, every other segment literally
Match(topic, pattern) ==
    /\ Len(topic) = Len(pattern)
    /\ \A i \in 1..Len(pattern) : pattern[i] = "+" \/ pattern[i] = topic[i]

\* the two filters MediaCard.onConnect subscribes to
ThroughputFilter(e, metric) == <<"pioreactor", "+", e, "throughput_calculating", metric>>

\* what the fleet publishes on the bus
TelemetryMessages ==
    { [destinationName |-> <<"pioreactor", u, e, "throughput_calculating", m>>,
       payloadString   |-> p] :
        u \in Units, e \in Experiments, m \in Metrics, p \in PayloadStrings }

\* a client library that retries every dropped session, whatever connect() was given
AfterLossAlwaysRetries(conn, options) ==
    IF conn = "connected" THEN "reconnecting" ELSE "disconnected"

\* what becomes of a session that fails or drops: the client library
\* reconnects a session that had been connected if connect() was given
\* reconnect: true, and gives up otherwise
AfterLoss(conn, options) ==
    IF conn = "connected" /\ options.reconnect THEN "reconnecting" ELSE "disconnected"

-----------------------------------------------------------------------------
(* MediaCard: the streaming aggregator.                                    *)

\* the own properties of the Object constructor, on which
\* Object.hasOwnProperty(hash) is evaluated
ObjectOwnProps ==
    {"length", "name", "prototype", "assign", "create", "keys", "values",
     "entries", "freeze", "is"}

ObjectHasOwnProperty(hash) == hash \in ObjectOwnProps

\* object[hash], undefined when the key is absent; value + undefined is NaN
PlusProperty(value, object, hash) ==
    IF hash \in DOMAIN object THEN Plus(value, object[hash]) ELSE NaN

\* the test is made on the Object constructor, not on `object`
addOrUpdate(hash, object, value) ==
    IF ObjectHasOwnProperty(hash)
    THEN (hash :> PlusProperty(value, object, hash)) @@ object
    ELSE (hash :> value) @@ object

RECURSIVE SumOver(_, _)
SumOver(object, keys) ==
    IF keys = {} THEN Num(0)
    ELSE LET k == CHOOSE x \in keys : TRUE
         IN  Plus(object[k], SumOver(object, keys \ {k}))

\* Object.values(object).reduce((a, b) => a + b, 0)
reduceSum(object) == SumOver(object, DOMAIN object)

\* this.setState(patch): React drops the update of an unmounted component
setState(st, life, key, value) ==
    IF life = "mounted" THEN [st EXCEPT ![key] = value] ELSE st

\* a variant of onMessageArrived in which the total is summed over the
\* per-unit object as it was before addOrUpdate wrote into it
onMessageArrivedStaleTotal(st, life, message) ==
    LET topicParts == message.destinationName
        payload    == parseFloat(message.payloadString)
        unit       == topicParts[2]
        isAlt      == topicParts[Len(topicParts)] = "alt_media_throughput"
        objectRef  == IF isAlt THEN "altMediaThroughputPerUnit" ELSE "mediaThroughputPerUnit"
        totalRef   == IF isAlt THEN "altMediaThroughput" ELSE "mediaThroughput"
        total      == reduceSum(st[objectRef])
        mutated    == [st EXCEPT ![objectRef] = addOrUpdate(unit, st[objectRef], payload)]
    IN  setState(mutated, life, totalRef, total)

\* onMessageArrived as a function of this.state: addOrUpdate writes into the
\* object this.state holds (in place, whatever setState then does), and the
\* total is read back from that same object
onMessageArrived(st, life, message) ==
    LET topicParts == message.destinationName
        payload    == parseFloat(message.payloadString)
        unit       == topicParts[2]
        isAlt      == topicParts[Len(topicParts)] = "alt_media_throughput"
        objectRef  == IF isAlt THEN "altMediaThroughputPerUnit" ELSE "mediaThroughputPerUnit"
        totalRef   == IF isAlt THEN "altMediaThroughput" ELSE "mediaThroughput"
        mutated    == [st EXCEPT ![objectRef] = addOrUpdate(unit, st[objectRef], payload)]
        total      == reduceSum(mutated[objectRef])
    IN  setState(mutated, life, totalRef, total)

\* this.state as the constructor leaves it
InitialState ==
    [ mediaThroughputPerUnit    |-> << >>,
      altMediaThroughputPerUnit |-> << >>,
      mediaThroughput           |-> Num(0),
      altMediaThroughput        |-> Num(0),
      rates                     |-> [all |-> [mediaRate |-> 0, altMediaRate |-> 0]] ]

NoClient == [conn |-> "none", subscriptions |-> {}]

MediaCardInit ==
    /\ experiment = "expA"
    /\ state = InitialState
    /\ mcLife = "constructed"
    /\ mcClient = NoClient
    /\ delivered = << >>
    /\ inflight = {}
    /\ issued = 0
    /\ fetchLog = << >>

\* componentDidMount: a new client, connect() started, the handler installed
MediaCardDidMount ==
    /\ mcLife = "constructed"
    /\ mcLife' = "mounted"
    /\ mcClient' = [conn |-> "connecting", subscriptions |-> {}]
    /\ UNCHANGED <<dosingVars, snackVars, downloadVars, experiment, state, delivered, inflight, issued, fetchLog>>

\* onConnect: the connect's onSuccess callback
MediaCardOnConnect ==
    /\ mcClient.conn = "connecting"
    /\ mcClient' = [conn |-> "connected",
                    subscriptions |-> { ThroughputFilter(experiment, "alt_media_throughput"),
                                        ThroughputFilter(experiment, "media_throughput") }]
    /\ UNCHANGED <<dosingVars, snackVars, downloadVars, experiment, state, mcLife, delivered, inflight, issued, fetchLog>>

\* this.client.connect({'onSuccess': this.onConnect})
MediaCardConnectOptions == [reconnect |-> FALSE]

\* the session fails or drops; connect() was given no reconnect option
MediaCardConnectionLost ==
    /\ mcClient.conn \in {"connecting", "connected"}
    /\ mcClient' = [conn |-> AfterLoss(mcClient.conn, MediaCardConnectOptions),
                    subscriptions |-> {}]
    /\ UNCHANGED <<dosingVars, snackVars, downloadVars, experiment, state, mcLife, delivered, inflight, issued, fetchLog>>

\* the broker forwards a message matching a subscription of the live session
MediaCardOnMessageArrived(message) ==
    /\ mcClient.conn = "connected"
    /\ \E f \in mcClient.subscriptions : Match(message.destinationName, f)
    /\ Len(delivered) < MaxMsgs
    /\ state' = onMessageArrived(state, mcLife, message)
    /\ delivered' = Append(delivered, message)
    /\ UNCHANGED <<dosingVars, snackVars, downloadVars, experiment, mcLife, mcClient, inflight, issued, fetchLog>>

\* React unmounts the card; the class defines no componentWillUnmount
MediaCardUnmount ==
    /\ mcLife = "mounted"
    /\ mcLife' = "unmounted"
    /\ UNCHANGED <<dosingVars, snackVars, downloadVars, experiment, state, mcClient, delivered, inflight, issued, fetchLog>>

-----------------------------------------------------------------------------
(* MediaCard: the snapshot of recent rates.                                *)

\* what GET /recent_media_rates/<e> answers when it succeeds
RecentMediaRates(e) ==
    IF e = "expA"
    THEN [all |-> [mediaRate |-> 1, altMediaRate |-> 0]]
    ELSE [all |-> [mediaRate |-> 2, altMediaRate |-> 3]]

\* the JSON body of an error answer
ErrorBody == [error |-> "Internal Server Error"]

\* how a fetch may settle: the network fails (the promise rejects), or a
\* response arrives, 2xx or not, whose body parses as JSON or does not
FetchOutcomes(e) ==
    { [settled |-> "rejected", ok |-> FALSE, parses |-> FALSE, data |-> ErrorBody],
      [settled |-> "resolved", ok |-> TRUE,  parses |-> TRUE,  data |-> RecentMediaRates(e)],
      [settled |-> "resolved", ok |-> FALSE, parses |-> TRUE,  data |-> ErrorBody],
      [settled |-> "resolved", ok |-> FALSE, parses |-> FALSE, data |-> ErrorBody] }

\* the promise chain of getRecentRates once its fetch has settled:
\* response.json() whatever the status, then setState({rates: data});
\* a rejection (of fetch, or of json()) skips the rest of the chain
getRecentRates(st, life, outcome) ==
    IF outcome.settled = "resolved" /\ outcome.parses
    THEN setState(st, life, "rates", outcome.data)
    ELSE st

\* the experiment prop changes: componentDidUpdate calls getRecentRates,
\* which issues the fetch for the new experiment
MediaCardDidUpdate(e) ==
    /\ mcLife = "mounted"
    /\ e # experiment
    /\ issued < MaxFetches
    /\ experiment' = e
    /\ issued' = issued + 1
    /\ inflight' = inflight \cup {[id |-> issued + 1, experiment |-> e]}
    /\ UNCHANGED <<dosingVars, snackVars, downloadVars, state, mcLife, mcClient, delivered, fetchLog>>

\* a fetch in flight settles; fetches settle in any order
MediaCardFetchSettled(f, outcome) ==
    /\ f \in inflight
    /\ inflight' = inflight \ {f}
    /\ state' = getRecentRates(state, mcLife, outcome)
    /\ fetchLog' = Append(fetchLog, [id |-> f.id, experiment |-> f.experiment,
                                     outcome |-> outcome])
    /\ UNCHANGED <<dosingVars, snackVars, downloadVars, experiment, mcLife, mcClient, delivered, issued>>

-----------------------------------------------------------------------------
(* ButtonChangeDosingDialog: the command dispatcher.                       *)

\* props.unit and props.experiment of the dialog
DialogUnit == "u1"

DialogExperiment == "expA"

Configs == {"empty", "loaded"}

\* the keys of GET /contrib/automations/dosing
AutomationKeys == {"silent", "pid_morbidostat"}

\* what AutomationForm hands to updateParent
ChildSettings == { [key |-> "duration", value |-> "60"] }

\* useState({automation_key: "silent", skip_first_run: false}); `fields`
\* holds the members added after these two, in insertion order
InitialAlgoSettings ==
    [automation_key |-> "silent", skip_first_run |-> FALSE, fields |-> << >>]

\* {...prevState, ...setting}: a key already present keeps its place
Spread(fields, setting) ==
    IF \E i \in 1..Len(fields) : fields[i].key = setting.key
    THEN [ i \in 1..Len(fields) |->
             IF fields[i].key = setting.key THEN setting ELSE fields[i] ]
    ELSE Append(fields, setting)

\* JSON.stringify(algoSettings): the members in insertion order, a string
\* as a quoted string, a boolean as the literal true or false
JSONstringify(obj) ==
    << [key |-> "automation_key", json |-> "string", text |-> obj.automation_key],
       [key |-> "skip_first_run", json |-> "literal",
        text |-> IF obj.skip_first_run THEN "true" ELSE "false"] >>
    \o [ i \in 1..Len(obj.fields) |->
           [key |-> obj.fields[i].key, json |-> "string", text |-> obj.fields[i].value] ]

\* a variant of NewMessage at QoS 1 (at least once)
NewMessageQos1(settings, unit, exp) ==
    [ destinationName |-> <<"pioreactor", unit, exp,
                            "dosing_control", "dosing_automation", "set">>,
      payloadString   |-> JSONstringify(settings),
      qos             |-> 1 ]

\* the Message onSubmit builds
NewMessage(settings, unit, exp) ==
    [ destinationName |-> <<"pioreactor", unit, exp,
                            "dosing_control", "dosing_automation", "set">>,
      payloadString   |-> JSONstringify(settings),
      qos             |-> 2 ]

\* the dialog is first rendered while the parent still loads the
\* configuration; a dialog rendered with the configuration already loaded
\* is DialogDidMount followed at once by DialogConfigChanged("loaded")
\* client.connect()
DialogConnectOptions == [reconnect |-> FALSE]

DosingInit ==
    /\ config = "empty"
    /\ dlgLife = "rendered"
    /\ open = FALSE
    /\ algoSettings = InitialAlgoSettings
    /\ client = 0
    /\ automations = {}
    /\ openSnackbar = FALSE
    /\ sessions = << >>
    /\ published = << >>
    /\ consoleLog = << >>

\* the effect on [config]: nothing without a network topology, else a new
\* Client, connect() started, setClient(client)
ClientEffect(c) ==
    IF c = "empty"
    THEN UNCHANGED <<client, sessions>>
    ELSE /\ Len(sessions) < MaxClients
         /\ sessions' = Append(sessions, "connecting")
         /\ client' = Len(sessions) + 1

\* the first commit: both effects run; the automations are fetched below
DialogDidMount ==
    /\ dlgLife = "rendered"
    /\ dlgLife' = "mounted"
    /\ ClientEffect(config)
    /\ UNCHANGED <<mediaVars, snackVars, downloadVars, config, open, algoSettings, automations, openSnackbar,
                   published, consoleLog>>

\* the parent passes another config object: the effect on [config] runs again
DialogConfigChanged(c) ==
    /\ dlgLife = "mounted"
    /\ config' = c
    /\ ClientEffect(c)
    /\ UNCHANGED <<mediaVars, snackVars, downloadVars, dlgLife, open, algoSettings, automations, openSnackbar,
                   published, consoleLog>>

\* fetchDosingAutomations settles; a failure is caught and changes nothing
DialogAutomationsFetched(ok) ==
    /\ dlgLife = "mounted"
    /\ automations = {}
    /\ automations' = IF ok THEN AutomationKeys ELSE {}
    /\ UNCHANGED <<mediaVars, snackVars, downloadVars, config, dlgLife, open, algoSettings, client, openSnackbar,
                   sessions, published, consoleLog>>

\* the broker acknowledges the connect of session i
DialogSessionConnected(i) ==
    /\ sessions[i] = "connecting"
    /\ sessions' = [sessions EXCEPT ![i] = "connected"]
    /\ UNCHANGED <<mediaVars, snackVars, downloadVars, config, dlgLife, open, algoSettings, client, automations,
                   openSnackbar, published, consoleLog>>

\* the connect of session i fails, or its session drops
DialogSessionLost(i) ==
    /\ sessions[i] \in {"connecting", "connected"}
    /\ sessions' = [sessions EXCEPT ![i] = AfterLoss(@, DialogConnectOptions)]
    /\ UNCHANGED <<mediaVars, snackVars, downloadVars, config, dlgLife, open, algoSettings, client, automations,
                   openSnackbar, published, consoleLog>>

handleClickOpen ==
    /\ dlgLife = "mounted"
    /\ ~open
    /\ open' = TRUE
    /\ UNCHANGED <<mediaVars, snackVars, downloadVars, config, dlgLife, algoSettings, client, automations, openSnackbar,
                   sessions, published, consoleLog>>

handleClose ==
    /\ open
    /\ open' = FALSE
    /\ UNCHANGED <<mediaVars, snackVars, downloadVars, config, dlgLife, algoSettings, client, automations, openSnackbar,
                   sessions, published, consoleLog>>

\* the select offers the automations fetched
handleAlgoSelectionChange(value) ==
    /\ open
    /\ value \in automations
    /\ algoSettings' = [automation_key |-> value,
                        skip_first_run |-> algoSettings.skip_first_run,
                        fields         |-> << >>]
    /\ UNCHANGED <<mediaVars, snackVars, downloadVars, config, dlgLife, open, client, automations, openSnackbar,
                   sessions, published, consoleLog>>

handleSkipFirstRunChange(checked) ==
    /\ open
    /\ algoSettings' = [algoSettings EXCEPT !.skip_first_run = checked]
    /\ UNCHANGED <<mediaVars, snackVars, downloadVars, config, dlgLife, open, client, automations, openSnackbar,
                   sessions, published, consoleLog>>

\* AutomationForm is rendered once automations is not empty
updateFromChild(setting) ==
    /\ open
    /\ automations # {}
    /\ algoSettings' = [algoSettings EXCEPT !.fields = Spread(@, setting)]
    /\ UNCHANGED <<mediaVars, snackVars, downloadVars, config, dlgLife, open, client, automations, openSnackbar,
                   sessions, published, consoleLog>>

\* onSubmit: client.publish(message) throws a TypeError when client is null
\* and an invalid-state Error when the session is not connected; either is
\* caught and logged, and the dialog closes in every case
onSubmit ==
    /\ open
    /\ Len(published) + Len(consoleLog) < MaxSubmits
    /\ LET message == NewMessage(algoSettings, DialogUnit, DialogExperiment)
       IN  IF client = 0
           THEN /\ consoleLog' = Append(consoleLog, "TypeError")
                /\ UNCHANGED <<published, openSnackbar>>
           ELSE IF sessions[client] = "connected"
           THEN /\ published' = Append(published, message)
                /\ openSnackbar' = TRUE
                /\ UNCHANGED consoleLog
           ELSE /\ consoleLog' = Append(consoleLog, "InvalidState")
                /\ UNCHANGED <<published, openSnackbar>>
    /\ open' = FALSE
    /\ UNCHANGED <<mediaVars, snackVars, downloadVars, config, dlgLife, algoSettings, client, automations, sessions>>

\* the snackbar is dismissed, or hides by itself after 7 s
handleSnackbarClose ==
    /\ openSnackbar
    /\ openSnackbar' = FALSE
    /\ UNCHANGED <<mediaVars, snackVars, downloadVars, config, dlgLife, open, algoSettings, client, automations,
                   sessions, published, consoleLog>>


-----------------------------------------------------------------------------
(* ErrorSnackbar: the log subscription and the identity map.               *)

\* what GET /get_current_unit_labels answers when it succeeds: u2 has no label
UnitLabels == ("u1" :> "Reactor A")

LogLevels == {"ERROR", "WARNING", "INFO"}

LogSources == {"app", "ui"}

\* the JSON text {"level": ..., "message": ..., "task": ...} of a log payload
LogPayloadString(level) ==
    << [key |-> "level",   text |-> level],
       [key |-> "message", text |-> "pump malfunction"],
       [key |-> "task",    text |-> "dosing_control"] >>

\* what the fleet logs on the bus
LogMessages ==
    { [topic |-> <<"pioreactor", u, "expA", "logs", src>>,
       payloadString |-> LogPayloadString(l)] :
        u \in Units, src \in LogSources, l \in LogLevels }

\* the filter onSuccess subscribes to, at QoS 1
LogFilter == <<"pioreactor", "+", "+", "logs", "+">>

\* JSON.parse(message.payloadString).<key>, undefined when there is no such member
Undefined == "<undefined>"

Member(text, key) ==
    IF \E i \in 1..Len(text) : text[i].key = key
    THEN text[CHOOSE i \in 1..Len(text) : text[i].key = key].text
    ELSE Undefined

\* relabelMap[unit]
Lookup(map, unit) == IF unit \in DOMAIN map THEN map[unit] ELSE Undefined

\* the truthiness of a string or undefined
Truthy(x) == x \notin {Undefined, ""}

\* useState defaults
InitialView ==
    [open |-> FALSE, renamedUnit |-> "", unit |-> "", msg |-> "", level |-> "error", task |-> ""]

\* a variant of the handler that sets renamedUnit only when the unit has a label
onLogMessageArrivedKeepsLabel(view, map, message) ==
    LET level == Member(message.payloadString, "level")
        unit  == message.topic[2]
    IN  IF level \in {"ERROR", "WARNING"} /\ message.topic[Len(message.topic)] # "ui"
        THEN [ open        |-> TRUE,
               renamedUnit |-> IF Truthy(Lookup(map, unit)) THEN Lookup(map, unit)
                               ELSE view.renamedUnit,
               unit        |-> unit,
               msg         |-> Member(message.payloadString, "message"),
               level       |-> level,
               task        |-> Member(message.payloadString, "task") ]
        ELSE view

\* onMessageArrived of the effect, with `map` the relabelMap its closure holds
onLogMessageArrived(view, map, message) ==
    LET level == Member(message.payloadString, "level")
        unit  == message.topic[2]
    IN  IF level \in {"ERROR", "WARNING"} /\ message.topic[Len(message.topic)] # "ui"
        THEN [ open        |-> TRUE,
               renamedUnit |-> Lookup(map, unit),
               unit        |-> unit,
               msg         |-> Member(message.payloadString, "message"),
               level       |-> level,
               task        |-> Member(message.payloadString, "task") ]
        ELSE view

\* the text of the AlertTitle that names the unit:
\* unit + (renamedUnit ? " / " + renamedUnit : "")
DisplayedUnit(view) ==
    IF Truthy(view.renamedUnit) THEN <<view.unit, " / ", view.renamedUnit>>
    ELSE <<view.unit>>

\* client.connect({onSuccess: onSuccess, timeout: 180, reconnect: true})
SnackbarConnectOptions == [reconnect |-> TRUE]

SnackbarInit ==
    /\ sbConfig = "empty"
    /\ sbLife = "rendered"
    /\ relabelMap = << >>
    /\ labelFetch = "idle"
    /\ sbClients = << >>
    /\ sbView = InitialView

\* the effect on [props.config]: nothing without a network topology, else a
\* new Client whose handler holds the relabelMap of this render
SnackbarClientEffect(c) ==
    IF c = "empty"
    THEN UNCHANGED sbClients
    ELSE /\ Len(sbClients) < MaxClients
         /\ sbClients' = Append(sbClients, [conn |-> "connecting", subscriptions |-> {},
                                            relabelMap |-> relabelMap])

\* the first commit: getRelabelMap starts its fetch, the client effect runs
SnackbarDidMount ==
    /\ sbLife = "rendered"
    /\ sbLife' = "mounted"
    /\ labelFetch' = "pending"
    /\ SnackbarClientEffect(sbConfig)
    /\ UNCHANGED <<mediaVars, dosingVars, downloadVars, sbConfig, relabelMap, sbView>>

\* the parent passes another config object: the effect on [props.config] runs again
SnackbarConfigChanged(c) ==
    /\ sbLife = "mounted"
    /\ sbConfig' = c
    /\ SnackbarClientEffect(c)
    /\ UNCHANGED <<mediaVars, dosingVars, downloadVars, sbLife, relabelMap, labelFetch, sbView>>

\* getRelabelMap's fetch settles: response.json() whatever the status, then
\* setRelabelMap(data); a rejection skips the rest of the chain
SnackbarLabelsFetched(outcome) ==
    /\ labelFetch = "pending"
    /\ labelFetch' = "settled"
    /\ relabelMap' = IF outcome.settled = "resolved" /\ outcome.parses
                     THEN outcome.data ELSE relabelMap
    /\ UNCHANGED <<mediaVars, dosingVars, downloadVars, sbConfig, sbLife, sbClients, sbView>>

\* onSuccess, after a connect and after every reconnect: subscribe to the logs
SnackbarOnSuccess(i) ==
    /\ sbClients[i].conn \in {"connecting", "reconnecting"}
    /\ sbClients' = [sbClients EXCEPT ![i].conn = "connected",
                                      ![i].subscriptions = {LogFilter}]
    /\ UNCHANGED <<mediaVars, dosingVars, downloadVars, sbConfig, sbLife, relabelMap, labelFetch,
                   sbView>>

\* the connect of client i fails, or its session drops
SnackbarConnectionLost(i) ==
    /\ sbClients[i].conn \in {"connecting", "connected"}
    /\ sbClients' = [sbClients EXCEPT
                        ![i].conn = AfterLoss(@, SnackbarConnectOptions),
                        ![i].subscriptions = {}]
    /\ UNCHANGED <<mediaVars, dosingVars, downloadVars, sbConfig, sbLife, relabelMap, labelFetch,
                   sbView>>

\* the broker forwards a log message to client i, whose handler runs
SnackbarOnMessageArrived(i, message) ==
    /\ sbClients[i].conn = "connected"
    /\ \E f \in sbClients[i].subscriptions : Match(message.topic, f)
    /\ sbView' = onLogMessageArrived(sbView, sbClients[i].relabelMap, message)
    /\ UNCHANGED <<mediaVars, dosingVars, downloadVars, sbConfig, sbLife, relabelMap, labelFetch, sbClients>>

\* handleClose, for a reason other than a click away
SnackbarHandleClose ==
    /\ sbView.open
    /\ sbView' = [sbView EXCEPT !.open = FALSE]
    /\ UNCHANGED <<mediaVars, dosingVars, downloadVars, sbConfig, sbLife, relabelMap, labelFetch,
                   sbClients>>

\* how the fetch of the labels may settle
LabelOutcomes ==
    { [settled |-> "rejected", ok |-> FALSE, parses |-> FALSE, data |-> ErrorBody],
      [settled |-> "resolved", ok |-> TRUE,  parses |-> TRUE,  data |-> UnitLabels],
      [settled |-> "resolved", ok |-> FALSE, parses |-> TRUE,  data |-> ErrorBody] }


-----------------------------------------------------------------------------
(* DownloadDataFormContainer: the download form.                           *)

\* the checkboxes of CheckboxesGroup
Datasets ==
    {"growth_rates", "io_events", "od_readings_raw", "od_readings_filtered",
     "logs", "alt_media_fraction"}

\* useState defaults of the form
InitialFormState ==
    [experimentSelection |-> "", datasetCheckbox |-> [d \in Datasets |-> FALSE]]

\* Object.values(state['datasetCheckbox']).some((e) => e)
SomeDataset(st) == \E d \in Datasets : st.datasetCheckbox[d]

\* how POST query_datasets may settle: rejected, answered with a body that
\* is not JSON, or answered with JSON under a 2xx or another status
DownloadOutcomes ==
    { [settled |-> "rejected", ok |-> FALSE, parses |-> FALSE],
      [settled |-> "resolved", ok |-> FALSE, parses |-> FALSE],
      [settled |-> "resolved", ok |-> TRUE,  parses |-> TRUE],
      [settled |-> "resolved", ok |-> FALSE, parses |-> TRUE] }

\* what the history records for a request that settled with `outcome`
Settled(outcome) ==
    IF outcome.settled = "resolved" /\ outcome.parses
    THEN (IF outcome.ok THEN "succeeded" ELSE "answered with an error")
    ELSE "failed"

DownloadInit ==
    /\ isRunning = FALSE
    /\ isError = FALSE
    /\ errorMsg = ""
    /\ formState = InitialFormState
    /\ submits = << >>

\* handleCheckboxChange: a checkbox is ticked or cleared
handleCheckboxChange(name, checked) ==
    /\ formState.datasetCheckbox[name] # checked
    /\ formState' = [formState EXCEPT !.datasetCheckbox[name] = checked]
    /\ UNCHANGED <<mediaVars, dosingVars, snackVars, isRunning, isError, errorMsg, submits>>

\* handleExperimentSelectionChange, from the select or from ExperimentSelection's getData
handleExperimentSelectionChange(value) ==
    /\ formState.experimentSelection # value
    /\ formState' = [formState EXCEPT !.experimentSelection = value]
    /\ UNCHANGED <<mediaVars, dosingVars, snackVars, isRunning, isError, errorMsg, submits>>

\* onSubmit of the form: refused when no dataset is ticked, else the request
\* is sent and the button shows the progress
downloadOnSubmit ==
    /\ Len(submits) < MaxDownloads
    /\ IF ~SomeDataset(formState)
       THEN /\ isError' = TRUE
            /\ errorMsg' = "At least one dataset must be selected."
            /\ submits' = Append(submits, "rejected")
            /\ UNCHANGED isRunning
       ELSE /\ isRunning' = TRUE
            /\ submits' = Append(submits, "pending")
            /\ UNCHANGED <<isError, errorMsg>>
    /\ UNCHANGED <<mediaVars, dosingVars, snackVars, formState>>

\* the request of submit i settles: the file is downloaded, or the catch runs
DownloadSettled(i, outcome) ==
    /\ submits[i] = "pending"
    /\ submits' = [submits EXCEPT ![i] = Settled(outcome)]
    /\ isRunning' = FALSE
    /\ IF outcome.settled = "resolved" /\ outcome.parses
       THEN UNCHANGED <<isError, errorMsg>>
       ELSE /\ isError' = TRUE
            /\ errorMsg' = "Server error occurred. Check logs."
    /\ UNCHANGED <<mediaVars, dosingVars, snackVars, formState>>

\* errorFeedbackOrDefault
errorFeedbackOrDefault ==
    IF isError THEN errorMsg ELSE "Querying the database may take up to a minute or so."

-----------------------------------------------------------------------------
Init == MediaCardInit /\ DosingInit /\ SnackbarInit /\ DownloadInit

\* MediaCard under telemetry
Next ==
    \/ MediaCardDidMount
    \/ MediaCardOnConnect
    \/ MediaCardConnectionLost
    \/ \E message \in TelemetryMessages : MediaCardOnMessageArrived(message)
    \/ MediaCardUnmount

Spec == Init /\ [][Next]_vars

\* MediaCard under changes of the selected experiment
NextRates ==
    \/ MediaCardDidMount
    \/ MediaCardOnConnect
    \/ MediaCardUnmount
    \/ \E e \in Experiments : MediaCardDidUpdate(e)
    \/ \E f \in inflight : \E outcome \in FetchOutcomes(f.experiment) :
           MediaCardFetchSettled(f, outcome)

SpecRates == Init /\ [][NextRates]_vars

\* MediaCard on the bus while the selected experiment changes
NextExperiment ==
    \/ MediaCardDidMount
    \/ MediaCardOnConnect
    \/ \E e \in Experiments : MediaCardDidUpdate(e)
    \/ \E message \in TelemetryMessages : MediaCardOnMessageArrived(message)

SpecExperiment == Init /\ [][NextExperiment]_vars

\* the dosing dialog under its user, its parent and the bus
NextDosing ==
    \/ DialogDidMount
    \/ \E c \in Configs : DialogConfigChanged(c)
    \/ \E ok \in BOOLEAN : DialogAutomationsFetched(ok)
    \/ \E i \in 1..Len(sessions) : DialogSessionConnected(i)
    \/ \E i \in 1..Len(sessions) : DialogSessionLost(i)
    \/ handleClickOpen
    \/ handleClose
    \/ \E value \in AutomationKeys : handleAlgoSelectionChange(value)
    \/ \E checked \in BOOLEAN : handleSkipFirstRunChange(checked)
    \/ \E setting \in ChildSettings : updateFromChild(setting)
    \/ onSubmit
    \/ handleSnackbarClose

SpecDosing == Init /\ [][NextDosing]_vars

\* the notification under its parent, the label fetch and the bus
NextSnackbar ==
    \/ SnackbarDidMount
    \/ \E c \in Configs : SnackbarConfigChanged(c)
    \/ \E outcome \in LabelOutcomes : SnackbarLabelsFetched(outcome)
    \/ \E i \in 1..Len(sbClients) : SnackbarOnSuccess(i)
    \/ \E i \in 1..Len(sbClients) : SnackbarConnectionLost(i)
    \/ \E i \in 1..Len(sbClients) : \E message \in LogMessages :
           SnackbarOnMessageArrived(i, message)
    \/ SnackbarHandleClose

SpecSnackbar == Init /\ [][NextSnackbar]_vars

\* the sessions of the three contexts
NextConnections ==
    \/ MediaCardDidMount
    \/ MediaCardOnConnect
    \/ MediaCardConnectionLost
    \/ DialogDidMount
    \/ \E c \in Configs : DialogConfigChanged(c)
    \/ \E i \in 1..Len(sessions) : DialogSessionConnected(i)
    \/ \E i \in 1..Len(sessions) : DialogSessionLost(i)
    \/ SnackbarDidMount
    \/ \E c \in Configs : SnackbarConfigChanged(c)
    \/ \E i \in 1..Len(sbClients) : SnackbarOnSuccess(i)
    \/ \E i \in 1..Len(sbClients) : SnackbarConnectionLost(i)

SpecConnections == Init /\ [][NextConnections]_vars

\* the download form
NextDownload ==
    \/ \E name \in Datasets : \E checked \in BOOLEAN : handleCheckboxChange(name, checked)
    \/ \E value \in Experiments : handleExperimentSelectionChange(value)
    \/ downloadOnSubmit
    \/ \E i \in 1..Len(submits) : \E outcome \in DownloadOutcomes : DownloadSettled(i, outcome)

SpecDownload == Init /\ [][NextDownload]_vars

-----------------------------------------------------------------------------
(* The aggregator's claims, checked under Spec.                            *)

Last(s) == s[Len(s)]

\* the values parsed from the messages of `log` for one unit and one metric
RECURSIVE SumOfDeltas(_, _, _)
SumOfDeltas(log, unit, metric) ==
    IF log = << >> THEN Num(0)
    ELSE LET m    == Last(log)
             rest == SumOfDeltas(SubSeq(log, 1, Len(log) - 1), unit, metric)
         IN  IF m.destinationName[2] = unit /\ m.destinationName[5] = metric
             THEN Plus(rest, parseFloat(m.payloadString))
             ELSE rest

UnitsSeen(log, metric) ==
    { m.destinationName[2] :
        m \in { log[i] : i \in { j \in 1..Len(log) : log[j].destinationName[5] = metric } } }

\* the per-unit map a pure accumulator holds after `log`
Accumulated(log, metric) ==
    [ u \in UnitsSeen(log, metric) |-> SumOfDeltas(log, u, metric) ]

\* the part of this.state the aggregator owns
Aggregate(st) ==
    [ perUnit    |-> st.mediaThroughputPerUnit,
      altPerUnit |-> st.altMediaThroughputPerUnit,
      total      |-> st.mediaThroughput,
      altTotal   |-> st.altMediaThroughput ]

\* C1: while the card is mounted, after every message each fleet total is
\* the sum of the values of its per-unit map (media and alt-media alike).
C1_FleetTotalIsSumOfPerUnit ==
    mcLife # "unmounted" =>
        /\ state.mediaThroughput = reduceSum(state.mediaThroughputPerUnit)
        /\ state.altMediaThroughput = reduceSum(state.altMediaThroughputPerUnit)

\* C1's case: two units have reported media throughput, 2.5 and 1.0, and
\* the fleet total shows 3.5
C1_Witness ==
    /\ mcLife = "mounted"
    /\ state.mediaThroughputPerUnit = ("u1" :> Num(5)) @@ ("u2" :> Num(2))
    /\ state.mediaThroughput = Num(7)

\* C2: the per-unit total of a unit is the sum of the values of all the
\* messages received for that unit and metric (a unit never heard of has
\* no entry), so a delta delivered twice counts twice.
C2_PerUnitIsSumOfDeltas ==
    /\ state.mediaThroughputPerUnit = Accumulated(delivered, "media_throughput")
    /\ state.altMediaThroughputPerUnit = Accumulated(delivered, "alt_media_throughput")

\* C3: two deltas applied in either order to a fresh state give the same
\* per-unit maps and the same fleet totals.
C3_AggregationCommutes ==
    (mcLife = "mounted" /\ Len(delivered) = 2) =>
        Aggregate(state) =
            Aggregate(onMessageArrived(
                          onMessageArrived(InitialState, "mounted", delivered[2]),
                          "mounted", delivered[1]))

\* C4: a message whose payload does not parse as a number, delivered to the
\* mounted card, changes no per-unit total and no fleet total.
C4_MalformedPayloadDiscarded ==
    [][ (mcLife = "mounted" /\ delivered' # delivered /\ parseFloat(Last(delivered').payloadString).nan)
            => Aggregate(state') = Aggregate(state) ]_vars

\* C10: once the card is unmounted its client is no longer connected (nor
\* connecting), so nothing more is delivered to its handler.
C10_ClientDestroyedOnUnmount ==
    mcLife = "unmounted" => mcClient.conn \notin {"connecting", "connected"}

-----------------------------------------------------------------------------
(* The snapshot's claims, checked under SpecRates.                         *)

FetchFailed(outcome) == outcome.settled = "rejected" \/ ~outcome.ok

\* C5: a reload that fails (the network fails, or the response is not 2xx)
\* leaves the rates held unchanged.
C5_FailedReloadKeepsRates ==
    [][ (Len(fetchLog') > Len(fetchLog) /\ FetchFailed(Last(fetchLog').outcome))
            => state'.rates = state.rates ]_vars

\* C6: once every fetch issued has completed, all of them successfully, the
\* rates held are the answer to the fetch issued last, that of the
\* experiment now selected.
C6_LastIssuedFetchWins ==
    ( /\ mcLife = "mounted"
      /\ issued > 0
      /\ inflight = {}
      /\ \A i \in 1..Len(fetchLog) :
            fetchLog[i].outcome.settled = "resolved" /\ fetchLog[i].outcome.ok )
    => state.rates = RecentMediaRates(experiment)

-----------------------------------------------------------------------------
(* The dispatcher's claims, checked under SpecDosing.                      *)

\* the object a JSON text of the dialog's shape denotes
JSONparse(text) ==
    [ automation_key |-> text[1].text,
      skip_first_run |-> (text[2].text = "true"),
      fields         |-> [ i \in 1..(Len(text) - 2) |->
                             [key |-> text[i + 2].key, value |-> text[i + 2].text] ] ]

\* C7: every command the broker accepts was published by one onSubmit, to
\* pioreactor/<unit>/<experiment>/dosing_control/dosing_automation/set, with
\* the JSON text of the settings held at that moment, at QoS 2.
C7_CommandTopicPayloadQos ==
    [][ published' # published =>
          LET m == Last(published')
          IN  /\ published' = Append(published, m)
              /\ m.destinationName = <<"pioreactor", DialogUnit, DialogExperiment,
                                       "dosing_control", "dosing_automation", "set">>
              /\ m.payloadString[1].key = "automation_key"
              /\ m.payloadString[1].json = "string"
              /\ m.payloadString[2].key = "skip_first_run"
              /\ m.payloadString[2].json = "literal"
              /\ JSONparse(m.payloadString) = algoSettings
              /\ m.qos = 2 ]_vars

\* C7's case: {automation_key: "pid_morbidostat", skip_first_run: true} has
\* been submitted for unit u1 of experiment expA
C7_Witness ==
    \E i \in 1..Len(published) :
        published[i] =
            [ destinationName |-> <<"pioreactor", "u1", "expA",
                                    "dosing_control", "dosing_automation", "set">>,
              payloadString   |->
                  << [key |-> "automation_key", json |-> "string", text |-> "pid_morbidostat"],
                     [key |-> "skip_first_run", json |-> "literal", text |-> "true"] >>,
              qos             |-> 2 ]

\* what the user sees of the dialog
Visible == <<open, openSnackbar, algoSettings>>

\* C8: a submit whose publish raised shows the user something a dismissal
\* of the dialog (handleClose) would not show, and the success notification
\* opens only in a step in which the broker accepted the command.
C8_FailureIsReported ==
    [][ /\ Len(consoleLog') > Len(consoleLog)
            => Visible' # <<FALSE, openSnackbar, algoSettings>>
        /\ (openSnackbar' /\ ~openSnackbar)
            => Len(published') = Len(published) + 1 ]_vars

\* C9: onSubmit never invokes publish on a client whose session is not
\* connected (the invalid-state Error is what publish raises there).
C9_PublishOnlyWhenConnected ==
    \A i \in 1..Len(consoleLog) : consoleLog[i] # "InvalidState"


-----------------------------------------------------------------------------
(* Claims about the sessions of the three contexts.                        *)

\* a session that is open or being opened
Live == {"connecting", "connected", "reconnecting"}

\* a session that has been lost
Lost == {"disconnected", "reconnecting"}

\* C11: each context (the notification, the dosing dialog, the media card)
\* has at most one live client after any sequence of mounts and config
\* changes, so that a message on the bus reaches its handler at most once.
C11_AtMostOneLiveClient ==
    /\ Cardinality({i \in 1..Len(sbClients) : sbClients[i].conn \in Live}) <= 1
    /\ Cardinality({i \in 1..Len(sessions) : sessions[i] \in Live}) <= 1
    /\ (mcClient.conn \in Live => mcLife = "mounted")

-----------------------------------------------------------------------------
(* Claims about the notification.                                          *)

\* C13: identity resolution falls back to the raw identifier for every unit
\* that is absent from the identity map, the map that is empty because its
\* fetch failed or has not completed included: the notification then names
\* the unit by its identifier alone.
C13_FallsBackToRawIdentifier ==
    (sbView.unit \in Units /\ sbView.unit \notin DOMAIN relabelMap) =>
        DisplayedUnit(sbView) = <<sbView.unit>>

\* a notification for u2, which the labels fetched do not name
C13_Witness ==
    /\ sbView.open
    /\ sbView.unit = "u2"
    /\ relabelMap = UnitLabels
    /\ \E i \in 1..Len(sbClients) : sbClients[i].relabelMap = UnitLabels
    /\ DisplayedUnit(sbView) = <<"u2">>

\* C15: the notification uses the refreshed identity map for every
\* interleaving of the config becoming available and the completion of
\* GET /get_current_unit_labels: an ERROR or WARNING message that arrives
\* after the fetch has completed, for a unit the map labels, sets the
\* renamed unit displayed to that label.
C15_UsesRefreshedIdentityMap ==
    [][ \A i \in 1..Len(sbClients) : \A message \in LogMessages :
            ( /\ SnackbarOnMessageArrived(i, message)
              /\ labelFetch = "settled"
              /\ Member(message.payloadString, "level") \in {"ERROR", "WARNING"}
              /\ message.topic[Len(message.topic)] # "ui"
              /\ message.topic[2] \in DOMAIN relabelMap )
            => sbView'.renamedUnit = relabelMap[message.topic[2]] ]_vars

-----------------------------------------------------------------------------
(* Claims about the aggregate and the selected experiment.                 *)

\* the topic is one of the two throughput topics of experiment e
IsThroughputOf(topic, e) ==
    \/ Match(topic, ThroughputFilter(e, "media_throughput"))
    \/ Match(topic, ThroughputFilter(e, "alt_media_throughput"))

\* C14: a message delivered to the handler whose topic matches neither
\* pioreactor/+/<experiment>/throughput_calculating/media_throughput nor
\* .../alt_media_throughput, for the experiment selected, leaves the
\* aggregate unchanged; a message that matches changes only the per-unit map
\* and the total of its own metric.
C14_OnlyMatchingMessagesChangeTheirMetric ==
    [][ (mcLife = "mounted" /\ delivered' # delivered) =>
            LET topic == Last(delivered').destinationName
            IN  IF ~IsThroughputOf(topic, experiment)
                THEN Aggregate(state') = Aggregate(state)
                ELSE /\ state'.rates = state.rates
                     /\ topic[5] = "media_throughput" =>
                            /\ state'.altMediaThroughputPerUnit = state.altMediaThroughputPerUnit
                            /\ state'.altMediaThroughput = state.altMediaThroughput
                     /\ topic[5] = "alt_media_throughput" =>
                            /\ state'.mediaThroughputPerUnit = state.mediaThroughputPerUnit
                            /\ state'.mediaThroughput = state.mediaThroughput ]_vars

\* C16: the throughput totals displayed belong to the experiment selected,
\* in every reachable state, after a change of the experiment prop included:
\* every message they are made of is of that experiment.
C16_TotalsBelongToSelectedExperiment ==
    mcLife = "mounted" =>
        \A i \in 1..Len(delivered) : delivered[i].destinationName[3] = experiment

-----------------------------------------------------------------------------
(* Claims about the download form.                                         *)

\* C17: once the latest submit has completed successfully, isError is false
\* and isRunning is false; isError is true only when the most recent submit
\* was rejected (no dataset selected) or its request failed.
C17_ErrorReflectsLatestSubmit ==
    submits # << >> =>
        /\ Last(submits) = "succeeded" => (~isError /\ ~isRunning)
        /\ isError => Last(submits) \in {"rejected", "failed", "answered with an error"}

=============================================================================
